---- MODULE Spec2Model ----
(***************************************************************************)
(* Model of convert_TestCase_assert_statements_to_assert_methods.py:       *)
(* the AssertEqualTransformer visitor (scope flags, rewrite of             *)
(* `assert X == Y`), its whitespace helper _strip_line_continuation, and   *)
(* the drivers transform_file / transform_folder.                          *)
(*                                                                         *)
(* Four specifications share the operators that model the handlers:        *)
(*   Spec       one traversal, the tree generated node by node             *)
(*   SpecStrip  _strip_line_continuation applied to whitespace values      *)
(*   SpecFolder transform_folder over a few files, the script run twice    *)
(*   SpecTwice  the same over one file, for every small tree               *)
(***************************************************************************)
EXTENDS Integers, Sequences, FiniteSets, TLC

VARIABLES
    \* --- AssertEqualTransformer (one traversal) ---
    in_test_class,    \* self.in_test_class
    in_method,        \* self.in_method
    num_changes,      \* self.num_changes
    stack,            \* the ClassDef / FunctionDef nodes entered and not yet left
    body_nonempty,    \* the innermost open body (or the module) already holds a statement
    call,             \* the handler call that produced this state
    lines_rewritten,  \* lines whose returned node differs from the node passed in
    visited_in_test_class, \* a line was visited under a class with a TestCase base
    \* --- _strip_line_continuation applied on its own ---
    ws_in, ws_out,
    \* --- transform_folder ---
    disk,             \* path index -> file
    pc, idx, run,
    total_changes, num_changed_files,
    returned,         \* path index -> what transform_file returned in this run
    wrote,            \* path index -> transform_file wrote the file in this run
    disk_before       \* the disk as it was when this run started

walker_vars == <<in_test_class, in_method, num_changes, stack, body_nonempty,
                 call, lines_rewritten, visited_in_test_class>>
strip_vars  == <<ws_in, ws_out>>
folder_vars == <<disk, pc, idx, run, total_changes, num_changed_files,
                 returned, wrote, disk_before>>
vars == <<walker_vars, strip_vars, folder_vars>>

(***************************************************************************)
(* Bounds                                                                  *)
(***************************************************************************)
MaxDepth   == 3    \* nesting depth of class / def scopes in Spec
MaxChanges == 2    \* cap of num_changes in Spec
MaxWsUnits == 3    \* units (space, continuation) of a whitespace value in SpecStrip
MaxFiles   == 3    \* files found by the glob in SpecFolder
MaxTokens  == 6    \* nodes of the file in SpecTwice

(***************************************************************************)
(* Text: a str is a sequence of characters.                                *)
(***************************************************************************)
SP == " "
BS == "\\"
LF == "\n"
CR == "\r"

None == [type |-> "None"]

\* str.replace("\r\n", "\n")
RECURSIVE replace_crlf(_)
replace_crlf(s) ==
    IF s = <<>> THEN <<>>
    ELSE IF Len(s) >= 2 /\ s[1] = CR /\ s[2] = LF
         THEN <<LF>> \o replace_crlf(SubSeq(s, 3, Len(s)))
         ELSE <<s[1]>> \o replace_crlf(Tail(s))

\* the positions where "\\\n" occurs in s
continuation_positions(s) ==
    {i \in 1..(Len(s) - 1) : s[i] = BS /\ s[i + 1] = LF}

\* "\\\n" in s
has_continuation(s) == continuation_positions(s) # {}

\* s.rsplit("\\\n", 1), for an s that holds the separator
rsplit_continuation(s) ==
    LET i == CHOOSE p \in continuation_positions(s) :
                 \A q \in continuation_positions(s) : q <= p
    IN  <<SubSeq(s, 1, i - 1), SubSeq(s, i + 2, Len(s))>>

\* str.rstrip(): trailing whitespace characters, newlines included, are dropped
RECURSIVE rstrip(_)
rstrip(s) ==
    IF s = <<>> THEN <<>>
    ELSE IF s[Len(s)] \in {SP, LF, CR}
         THEN rstrip(SubSeq(s, 1, Len(s) - 1))
         ELSE s

\* libcst's SimpleWhitespace._validate: the value fully matches
\* ([ \f\t]|\\(\r\n?|\n))*
RECURSIVE valid_simple_whitespace(_)
valid_simple_whitespace(s) ==
    \/ s = <<>>
    \/ s[1] = SP /\ valid_simple_whitespace(Tail(s))
    \/ /\ Len(s) >= 2 /\ s[1] = BS /\ s[2] = LF
       /\ valid_simple_whitespace(SubSeq(s, 3, Len(s)))
    \/ /\ Len(s) >= 3 /\ s[1] = BS /\ s[2] = CR /\ s[3] = LF
       /\ valid_simple_whitespace(SubSeq(s, 4, Len(s)))
    \/ /\ Len(s) >= 2 /\ s[1] = BS /\ s[2] = CR
       /\ valid_simple_whitespace(SubSeq(s, 3, Len(s)))

SimpleWhitespace(v) == [type |-> "SimpleWhitespace", value |-> v]

TrailingWhitespace(ws) ==
    [type |-> "TrailingWhitespace", whitespace |-> ws,
     newline |-> [type |-> "Newline"]]

ParenthesizedWhitespace(first, last) ==
    [type |-> "ParenthesizedWhitespace", first_line |-> first,
     indent |-> FALSE, last_line |-> last]

\* A handler's outcome: the value it returns, or the exception it raises.
Returned(v) == [raised |-> FALSE, value |-> v]
Raised(e)   == [raised |-> TRUE, value |-> [type |-> e]]

\* AssertEqualTransformer._strip_line_continuation
_strip_line_continuation(ws) ==
    IF ws.type = "SimpleWhitespace"
    THEN LET value == replace_crlf(ws.value) IN
         IF has_continuation(value)
         THEN LET parts == rsplit_continuation(value)
                  before_newline == rstrip(parts[1])
                  after_newline == parts[2]
              IN  IF valid_simple_whitespace(before_newline)
                     /\ valid_simple_whitespace(after_newline)
                  THEN Returned(ParenthesizedWhitespace(
                           TrailingWhitespace(SimpleWhitespace(before_newline)),
                           SimpleWhitespace(after_newline)))
                  ELSE Raised("CSTValidationError")
         ELSE Returned(ws)
    ELSE Returned(ws)

(***************************************************************************)
(* Syntax tree nodes (libcst), as records                                  *)
(***************************************************************************)
Name(v) == [type |-> "Name", value |-> v]

Operator(kind, ws) == [type |-> kind, whitespace_after |-> ws]

ComparisonTarget(op, e) ==
    [type |-> "ComparisonTarget", operator |-> op, comparator |-> e]

Comparison(l, targets) ==
    [type |-> "Comparison", left |-> l, comparisons |-> targets]

Comma(before, after) ==
    [type |-> "Comma", whitespace_before |-> before, whitespace_after |-> after]

DEFAULT == [type |-> "MaybeSentinel.DEFAULT"]

Assert_(test, comma, msg) ==
    [type |-> "Assert", test |-> test, comma |-> comma, msg |-> msg]

Pass == [type |-> "Pass"]

Arg(v, comma) == [type |-> "Arg", value |-> v, comma |-> comma]

Attribute(v, attr) == [type |-> "Attribute", value |-> v, attr |-> attr]

Call(func, args) == [type |-> "Call", func |-> func, args |-> args]

Expr(v) == [type |-> "Expr", value |-> v]

SimpleStatementLine(body) == [type |-> "SimpleStatementLine", body |-> body]

\* a base class expression is kept as the pieces of its source text
ClassDef(bases) == [type |-> "ClassDef", bases |-> bases]

\* params are the names of node.params.params, the parameters the code looks
\* at (libcst keeps those before a "/" apart, in posonly_params)
FunctionDef(params) == [type |-> "FunctionDef", params |-> params]

(***************************************************************************)
(* AssertEqualTransformer.  self is the record                             *)
(* [in_test_class, in_method, num_changes].                                *)
(***************************************************************************)
\* AssertEqualTransformer.__init__
AssertEqualTransformer ==
    [in_test_class |-> FALSE, in_method |-> FALSE, num_changes |-> 0]

\* get_assert_statement
get_assert_statement(line) ==
    IF Len(line.body) # 1 THEN None
    ELSE IF line.body[1].type = "Assert" THEN line.body[1]
    ELSE None

\* "TestCase" in self._node_to_string(base.value)
base_contains_TestCase(base) ==
    \E i \in 1..Len(base) : base[i] = "TestCase"

\* AssertEqualTransformer.visit_ClassDef
visit_ClassDef(self, node) ==
    IF \E i \in 1..Len(node.bases) : base_contains_TestCase(node.bases[i])
    THEN [self EXCEPT !.in_test_class = TRUE]
    ELSE self

\* leave_ClassDef without the reset of the flag
leave_ClassDef_keeps_flag(self) == self

\* AssertEqualTransformer.leave_ClassDef
leave_ClassDef(self) == [self EXCEPT !.in_test_class = FALSE]

\* AssertEqualTransformer.visit_FunctionDef
visit_FunctionDef(self, node) ==
    IF self.in_test_class
    THEN IF Len(node.params) > 0 /\ node.params[1] = "self"
         THEN [self EXCEPT !.in_method = TRUE]
         ELSE self
    ELSE self

\* AssertEqualTransformer.leave_FunctionDef
leave_FunctionDef(self) == [self EXCEPT !.in_method = FALSE]

\* what a handler call leaves behind: the transformer, and the node returned
\* or the exception raised
Outcome(self, res) == [self |-> self, raised |-> res.raised, value |-> res.value]

\* the line returned as it came, the new statement dropped
with_old_body(updated, new_statement) == updated

\* updated.with_changes(body=[new_statement])
with_new_body(updated, new_statement) ==
    [updated EXCEPT !.body = <<new_statement>>]

\* AssertEqualTransformer.leave_SimpleStatementLine
leave_SimpleStatementLine(self, updated) ==
    IF ~(self.in_test_class /\ self.in_method)
    THEN Outcome(self, Returned(updated))
    ELSE
    LET assert_statement == get_assert_statement(updated) IN
    IF assert_statement.type = "None"
    THEN Outcome(self, Returned(updated))
    ELSE
    LET test == assert_statement.test IN
    IF test.type # "Comparison"
    THEN Outcome(self, Returned(updated))
    ELSE IF Len(test.comparisons) # 1
    THEN Outcome(self, Returned(updated))
    ELSE
    LET comp == test.comparisons[1] IN
    IF comp.operator.type # "Equal"
    THEN Outcome(self, Returned(updated))
    ELSE
    LET left == test.left
        right == comp.comparator
        message == assert_statement.msg
        first_ws == _strip_line_continuation(comp.operator.whitespace_after)
    IN
    IF first_ws.raised THEN Outcome(self, first_ws)
    ELSE
    LET first_arg == Arg(left, Comma(SimpleWhitespace(<<>>), first_ws.value))
        with_comma == message.type # "None" /\ assert_statement.comma.type = "Comma"
        second_ws == IF with_comma
                     THEN _strip_line_continuation(
                              assert_statement.comma.whitespace_after)
                     ELSE Returned(None)
    IN
    IF second_ws.raised THEN Outcome(self, second_ws)
    ELSE
    LET second_arg ==
            IF with_comma
            THEN Arg(right, [assert_statement.comma
                                EXCEPT !.whitespace_after = second_ws.value])
            ELSE Arg(right, DEFAULT)
        args == IF message.type # "None"
                THEN <<first_arg, second_arg, Arg(message, DEFAULT)>>
                ELSE <<first_arg, second_arg>>
        new_call == Call(Attribute(Name("self"), Name("assertEqual")), args)
        new_statement == Expr(new_call)
    IN  Outcome([self EXCEPT !.num_changes = self.num_changes + 1],
                Returned(with_new_body(updated, new_statement)))

(***************************************************************************)
(* Inputs of the traversal                                                 *)
(***************************************************************************)
ws_plain == <<SP>>                          \* " "
ws_cont  == <<SP, BS, LF, SP, SP>>          \* one continuation
ws_cr    == <<BS, CR, SP>>                  \* one continuation, newline written CR
ws_cont2 == <<SP, BS, LF, SP, BS, LF, SP>>  \* two continuations

WsSamples == {ws_plain, ws_cont, ws_cr, ws_cont2}

\* assert a <op> b
AssertCompare(op, w) ==
    Assert_(Comparison(Name("a"),
                       <<ComparisonTarget(Operator(op, SimpleWhitespace(w)), Name("b"))>>),
            DEFAULT, None)

\* assert a == b, m
AssertEqualMsg(w, wc) ==
    Assert_(Comparison(Name("a"),
                       <<ComparisonTarget(Operator("Equal", SimpleWhitespace(w)), Name("b"))>>),
            Comma(SimpleWhitespace(<<>>), SimpleWhitespace(wc)), Name("m"))

\* assert a == b == c
AssertChained ==
    Assert_(Comparison(Name("a"),
                       <<ComparisonTarget(Operator("Equal", SimpleWhitespace(ws_plain)), Name("b")),
                         ComparisonTarget(Operator("Equal", SimpleWhitespace(ws_plain)), Name("c"))>>),
            DEFAULT, None)

\* self.assertEqual(a, b)
AssertEqualCall ==
    Expr(Call(Attribute(Name("self"), Name("assertEqual")),
              <<Arg(Name("a"), Comma(SimpleWhitespace(<<>>), SimpleWhitespace(ws_plain))),
                Arg(Name("b"), DEFAULT)>>))

EqualLines ==
    {SimpleStatementLine(<<AssertCompare("Equal", w)>>) : w \in WsSamples}
    \cup {SimpleStatementLine(<<AssertEqualMsg(w[1], w[2])>>) :
             w \in {<<ws_plain, ws_plain>>, <<ws_cont, ws_cont>>,
                    <<ws_cr, ws_cont>>, <<ws_plain, ws_cont2>>}}

OtherLines ==
    {SimpleStatementLine(<<AssertCompare(op, ws_plain)>>) : op \in {"NotEqual", "LessThan", "In"}}
    \cup {SimpleStatementLine(<<AssertChained>>),
          SimpleStatementLine(<<Assert_(Name("a"), DEFAULT, None)>>),
          SimpleStatementLine(<<AssertCompare("Equal", ws_plain), Pass>>),
          SimpleStatementLine(<<Pass>>),
          SimpleStatementLine(<<AssertEqualCall>>)}

Lines == EqualLines \cup OtherLines

ClassDefs ==
    {ClassDef(<<>>),                                            \* class A:
     ClassDef(<<<<"Base">>>>),                                  \* class A(Base):
     ClassDef(<<<<"Base">>, <<"unittest", ".", "TestCase">>>>), \* class A(Base, unittest.TestCase):
     ClassDef(<<<<"My", "TestCase", "Mixin">>>>)}               \* class A(MyTestCaseMixin):

FunctionDefs ==
    {FunctionDef(<<>>),             \* def f():
     FunctionDef(<<"self", "x">>),  \* def f(self, x):
     FunctionDef(<<"cls">>)}        \* def f(cls):

(***************************************************************************)
(* Spec: one traversal (tree.visit(transformer)).  The tree is produced     *)
(* node by node: entering a class or def pushes it, leaving pops it, a     *)
(* statement line is visited where the traversal stands.                   *)
(***************************************************************************)
self_now ==
    [in_test_class |-> in_test_class, in_method |-> in_method,
     num_changes |-> num_changes]

SetSelf(self) ==
    /\ in_test_class' = self.in_test_class
    /\ in_method' = self.in_method
    /\ num_changes' = self.num_changes

NoCall == [handler |-> "__init__", raised |-> FALSE]

IdleStrip == ws_in = None /\ ws_out = None

IdleFolder ==
    /\ disk = <<>> /\ disk_before = <<>>
    /\ pc = "idle" /\ idx = 0 /\ run = 0
    /\ total_changes = 0 /\ num_changed_files = 0
    /\ returned = <<>> /\ wrote = <<>>

Init ==
    /\ in_test_class = AssertEqualTransformer.in_test_class
    /\ in_method = AssertEqualTransformer.in_method
    /\ num_changes = AssertEqualTransformer.num_changes
    /\ stack = <<>>
    /\ body_nonempty = FALSE
    /\ call = NoCall
    /\ lines_rewritten = 0
    /\ visited_in_test_class = FALSE
    /\ IdleStrip
    /\ IdleFolder

Top == stack[Len(stack)]

VisitClassDef ==
    /\ ~call.raised
    /\ Len(stack) < MaxDepth
    /\ \E node \in ClassDefs :
          /\ SetSelf(visit_ClassDef(self_now, node))
          /\ stack' = Append(stack, node)
          /\ call' = [handler |-> "visit_ClassDef", raised |-> FALSE]
    /\ body_nonempty' = FALSE
    /\ UNCHANGED <<lines_rewritten, visited_in_test_class, strip_vars, folder_vars>>

LeaveClassDef ==
    /\ ~call.raised
    /\ stack # <<>> /\ Top.type = "ClassDef" /\ body_nonempty
    /\ SetSelf(leave_ClassDef(self_now))
    /\ stack' = SubSeq(stack, 1, Len(stack) - 1)
    /\ body_nonempty' = TRUE
    /\ call' = [handler |-> "leave_ClassDef", raised |-> FALSE]
    /\ UNCHANGED <<lines_rewritten, visited_in_test_class, strip_vars, folder_vars>>

VisitFunctionDef ==
    /\ ~call.raised
    /\ Len(stack) < MaxDepth
    /\ \E node \in FunctionDefs :
          /\ SetSelf(visit_FunctionDef(self_now, node))
          /\ stack' = Append(stack, node)
          /\ call' = [handler |-> "visit_FunctionDef", raised |-> FALSE]
    /\ body_nonempty' = FALSE
    /\ UNCHANGED <<lines_rewritten, visited_in_test_class, strip_vars, folder_vars>>

LeaveFunctionDef ==
    /\ ~call.raised
    /\ stack # <<>> /\ Top.type = "FunctionDef" /\ body_nonempty
    /\ SetSelf(leave_FunctionDef(self_now))
    /\ stack' = SubSeq(stack, 1, Len(stack) - 1)
    /\ body_nonempty' = TRUE
    /\ call' = [handler |-> "leave_FunctionDef", raised |-> FALSE]
    /\ UNCHANGED <<lines_rewritten, visited_in_test_class, strip_vars, folder_vars>>

LeaveSimpleStatementLine ==
    /\ ~call.raised
    /\ num_changes < MaxChanges
    /\ \E updated \in Lines :
          LET out == leave_SimpleStatementLine(self_now, updated) IN
          /\ SetSelf(out.self)
          /\ call' = [handler |-> "leave_SimpleStatementLine", self |-> self_now,
                      updated |-> updated, raised |-> out.raised, value |-> out.value]
          /\ lines_rewritten' =
                 IF ~out.raised /\ out.value # updated
                 THEN lines_rewritten + 1 ELSE lines_rewritten
    /\ visited_in_test_class' =
          (visited_in_test_class
           \/ \E i \in 1..Len(stack) :
                 /\ stack[i].type = "ClassDef"
                 /\ \E b \in 1..Len(stack[i].bases) :
                       base_contains_TestCase(stack[i].bases[b]))
    /\ body_nonempty' = TRUE
    /\ UNCHANGED <<stack, strip_vars, folder_vars>>

Next ==
    \/ VisitClassDef
    \/ LeaveClassDef
    \/ VisitFunctionDef
    \/ LeaveFunctionDef
    \/ LeaveSimpleStatementLine

Spec == Init /\ [][Next]_vars

(***************************************************************************)
(* transform_file / transform_folder.  A file's text is kept as the tree   *)
(* it parses to, written as the traversal's sequence of nodes: entering a  *)
(* class or def, a statement line, leaving the innermost open class or     *)
(* def.  Text that is no Python parses to nothing.                         *)
(***************************************************************************)
Enter(node) == [tok |-> "enter", node |-> node]
Leave       == [tok |-> "leave", node |-> None]
Line(line)  == [tok |-> "line", node |-> line]

Module(body) == [type |-> "Module", body |-> body]
NotPython    == [type |-> "NotPython"]

\* a file on disk
File(source, readable, writable) ==
    [source |-> source, readable |-> readable, writable |-> writable]

\* cst.parse_module(source)
parse_module(source) ==
    IF source.type = "Module" THEN Returned(source)
    ELSE Raised("ParserSyntaxError")

\* the traversal's state after a statement line's handler: an exception ends
\* the traversal, a returned node takes the line's place in the new tree
after_line(st, out) ==
    IF out.raised
    THEN [st EXCEPT !.raised = TRUE, !.value = out.value]
    ELSE [st EXCEPT !.self = out.self,
                    !.done = Append(st.done, [tok |-> "line", node |-> out.value])]

\* tree.visit(transformer) at one node: the handler the traversal calls there.
\* st holds the transformer, the types of the nodes entered and not yet left,
\* and the nodes of the new tree so far
visit_node(st, t) ==
    IF t.tok = "enter"
    THEN [st EXCEPT !.self = IF t.node.type = "ClassDef"
                             THEN visit_ClassDef(st.self, t.node)
                             ELSE visit_FunctionDef(st.self, t.node),
                    !.open = Append(st.open, t.node.type),
                    !.done = Append(st.done, t)]
    ELSE IF t.tok = "leave"
    THEN [st EXCEPT !.self = IF st.open[Len(st.open)] = "ClassDef"
                             THEN leave_ClassDef(st.self)
                             ELSE leave_FunctionDef(st.self),
                    !.open = SubSeq(st.open, 1, Len(st.open) - 1),
                    !.done = Append(st.done, t)]
    ELSE after_line(st, leave_SimpleStatementLine(st.self, t.node))

\* the traversal from body[i] on
RECURSIVE visit_from(_, _, _)
visit_from(body, i, st) ==
    IF i > Len(body) \/ st.raised THEN st
    ELSE visit_from(body, i + 1, visit_node(st, body[i]))

\* what tree.visit(transformer) returns or raises, from the traversal's last state
visit_outcome(st) ==
    IF st.raised THEN Outcome(st.self, [raised |-> TRUE, value |-> st.value])
    ELSE Outcome(st.self, Returned(Module(st.done)))

\* tree.visit(transformer)
visit(tree, transformer) ==
    visit_outcome(visit_from(tree.body, 1,
                             [self |-> transformer, open |-> <<>>, done |-> <<>>,
                              raised |-> FALSE, value |-> None]))

\* one transformer kept for all files instead of a new one per file
shared_transformer ==
    [in_test_class |-> in_test_class, in_method |-> in_method,
     num_changes |-> num_changes]

\* transformer = AssertEqualTransformer()
fresh_transformer == AssertEqualTransformer

\* if transformer.num_changes > 0:
should_write(n) == n > 0

\* what a call of transform_file leaves behind: what it returned or raised,
\* the file on disk, whether it wrote, the transformer and the trees it held
FileOutcome(res, file, wrote_, transformer, tree, new_tree) ==
    [raised |-> res.raised, value |-> res.value, file |-> file, wrote |-> wrote_,
     transformer |-> transformer, tree |-> tree, new_tree |-> new_tree]

\* transform_file after the traversal: write if anything changed, return the count
transform_file_visited(file, tree, out) ==
    IF out.raised
    THEN FileOutcome(out, file, FALSE, out.self, tree, None)
    ELSE IF should_write(out.self.num_changes)
    THEN IF file.writable
         THEN FileOutcome(Returned(out.self.num_changes),
                          [file EXCEPT !.source = out.value], TRUE,
                          out.self, tree, out.value)
         ELSE FileOutcome(Raised("OSError"), file, FALSE, out.self, tree, out.value)
    ELSE FileOutcome(Returned(out.self.num_changes), file, FALSE,
                     out.self, tree, out.value)

\* transform_file without its except clause: the parse error propagates
transform_file_read_no_except(file, tree) ==
    IF tree.raised
    THEN FileOutcome(tree, file, FALSE, None, None, None)
    ELSE transform_file_visited(file, tree.value, visit(tree.value, fresh_transformer))

\* transform_file after the read: parse, and traverse with a new transformer
transform_file_read(file, tree) ==
    IF tree.raised
    THEN FileOutcome(Returned(0), file, FALSE, None, None, None)
    ELSE transform_file_visited(file, tree.value, visit(tree.value, fresh_transformer))

\* transform_file
transform_file(file) ==
    IF ~file.readable
    THEN FileOutcome(Raised("OSError"), file, FALSE, None, None, None)
    ELSE transform_file_read(file, parse_module(file.source))

\* the loop body's bookkeeping in transform_folder
tally(totals, n) ==
    IF n > 0
    THEN [num_changed_files |-> totals.num_changed_files + 1,
          total_changes |-> totals.total_changes + n]
    ELSE totals

(***************************************************************************)
(* Files on disk                                                           *)
(***************************************************************************)
TestCaseClass == ClassDef(<<<<"Base">>, <<"unittest", ".", "TestCase">>>>)
Method        == FunctionDef(<<"self", "x">>)
ClassMethod   == FunctionDef(<<"cls">>)
PlainLine     == SimpleStatementLine(<<AssertCompare("Equal", ws_plain)>>)
MsgLine       == SimpleStatementLine(<<AssertEqualMsg(ws_cont, ws_cont)>>)
NotEqualLine  == SimpleStatementLine(<<AssertCompare("NotEqual", ws_plain)>>)
RaisingLine   == SimpleStatementLine(<<AssertCompare("Equal", ws_cont2)>>)

\* class T(Base, unittest.TestCase):
\*     def test(self, x):
\*         assert a == b
OneAssert ==
    Module(<<Enter(TestCaseClass), Enter(Method), Line(PlainLine), Leave, Leave>>)

\* two asserts to rewrite in a method, one in a class method
TwoAsserts ==
    Module(<<Enter(TestCaseClass),
             Enter(Method), Line(PlainLine), Line(MsgLine), Leave,
             Enter(ClassMethod), Line(PlainLine), Leave,
             Leave>>)

\* def f():
\*     assert a == b
PlainFunction ==
    Module(<<Enter(FunctionDef(<<>>)), Line(PlainLine), Leave>>)

\* an assert whose whitespace holds two continuations, in a method
TwoContinuations ==
    Module(<<Enter(TestCaseClass), Enter(Method), Line(PlainLine),
             Line(RaisingLine), Leave, Leave>>)

FileSamples ==
    {File(OneAssert, TRUE, TRUE),
     File(TwoAsserts, TRUE, TRUE),
     File(PlainFunction, TRUE, TRUE),
     File(NotPython, TRUE, TRUE),
     File(TwoContinuations, TRUE, TRUE),
     File(OneAssert, TRUE, FALSE),      \* read-only
     File(OneAssert, FALSE, TRUE)}      \* unreadable, or not UTF-8

\* the nodes the trees of SpecTwice are made of

SmallTokens ==
    {Enter(TestCaseClass), Enter(Method), Enter(ClassMethod), Leave,
     Line(PlainLine), Line(MsgLine), Line(NotEqualLine)}

\* the nodes body[i..] can follow depth open nodes: every leave closes an
\* open node whose body holds a statement; whole, nothing stays open
RECURSIVE well_nested(_, _, _, _, _)
well_nested(body, i, depth, nonempty, whole) ==
    IF i > Len(body) THEN whole => depth = 0
    ELSE IF body[i].tok = "enter"
         THEN well_nested(body, i + 1, depth + 1, FALSE, whole)
    ELSE IF body[i].tok = "leave"
         THEN depth > 0 /\ nonempty /\ well_nested(body, i + 1, depth - 1, TRUE, whole)
    ELSE well_nested(body, i + 1, depth, TRUE, whole)

\* the beginnings of trees, of at most n nodes
RECURSIVE TreePrefixes(_)
TreePrefixes(n) ==
    IF n = 0 THEN {<<>>}
    ELSE LET shorter == TreePrefixes(n - 1) IN
         shorter \cup
         {Append(x[1], x[2]) :
            x \in {y \in {p \in shorter : Len(p) = n - 1} \X SmallTokens :
                      well_nested(Append(y[1], y[2]), 1, 0, FALSE, FALSE)}}

\* the trees of at most n nodes
SmallModules(n) ==
    {Module(b) : b \in {c \in TreePrefixes(n) : well_nested(c, 1, 0, FALSE, TRUE)}}

(***************************************************************************)
(* SpecFolder: transform_folder over the files the glob finds, in sorted   *)
(* path order (disk[1], disk[2], ...), and the script run a second time.   *)
(* SpecTwice: the same over one file drawn from SmallModules.              *)
(***************************************************************************)
IdleWalker ==
    /\ in_test_class = FALSE /\ in_method = FALSE /\ num_changes = 0
    /\ stack = <<>> /\ body_nonempty = FALSE
    /\ call = NoCall /\ lines_rewritten = 0
    /\ visited_in_test_class = FALSE

InitFolderOn(d) ==
    /\ IdleWalker
    /\ IdleStrip
    /\ disk = d /\ disk_before = d
    /\ pc = "start" /\ idx = 0 /\ run = 1
    /\ total_changes = 0 /\ num_changed_files = 0
    /\ returned = <<>> /\ wrote = <<>>

InitFolder ==
    \E d \in UNION {[1..n -> FileSamples] : n \in 0..MaxFiles} : InitFolderOn(d)

InitTwice ==
    \E m \in SmallModules(MaxTokens) : InitFolderOn(<<File(m, TRUE, TRUE)>>)

\* the lines of new_tree that are not the lines of tree
rewritten_lines(tree, new_tree) ==
    Cardinality({i \in 1..Len(tree.body) : new_tree.body[i] # tree.body[i]})

\* transform_folder up to the loop
StartFolder ==
    /\ pc = "start"
    /\ pc' = "loop"
    /\ idx' = 1
    /\ total_changes' = 0
    /\ num_changed_files' = 0
    /\ UNCHANGED <<walker_vars, strip_vars, disk, run, returned, wrote, disk_before>>

\* one iteration of the loop: transform_file(filepath) and the bookkeeping
TransformFile ==
    /\ pc = "loop"
    /\ idx <= Len(disk)
    /\ \E r \in {transform_file(disk[idx])} :
          /\ call' = [handler |-> "transform_file", raised |-> r.raised]
          /\ IF r.tree.type = "Module"
             THEN SetSelf(r.transformer)
             ELSE UNCHANGED <<in_test_class, in_method, num_changes>>
          /\ disk' = [disk EXCEPT ![idx] = r.file]
          /\ lines_rewritten' =
                 IF r.new_tree.type = "Module"
                 THEN rewritten_lines(r.tree, r.new_tree) ELSE 0
          /\ IF r.raised
             THEN /\ pc' = "aborted"
                  /\ UNCHANGED <<idx, total_changes, num_changed_files, returned, wrote>>
             ELSE /\ pc' = "loop"
                  /\ idx' = idx + 1
                  /\ returned' = Append(returned, r.value)
                  /\ wrote' = Append(wrote, r.wrote)
                  /\ \E totals \in {tally([num_changed_files |-> num_changed_files,
                                            total_changes |-> total_changes], r.value)} :
                        /\ total_changes' = totals.total_changes
                        /\ num_changed_files' = totals.num_changed_files
    /\ UNCHANGED <<stack, body_nonempty, visited_in_test_class,
                   strip_vars, run, disk_before>>

\* the summary line after the loop
PrintTotal ==
    /\ pc = "loop"
    /\ idx > Len(disk)
    /\ pc' = "done"
    /\ UNCHANGED <<walker_vars, strip_vars, disk, idx, run, total_changes,
                   num_changed_files, returned, wrote, disk_before>>

\* the script is run again on the same directory
RunAgain ==
    /\ pc \in {"done", "aborted"}
    /\ run = 1
    /\ run' = 2
    /\ pc' = "start"
    /\ idx' = 0
    /\ returned' = <<>>
    /\ wrote' = <<>>
    /\ disk_before' = disk
    /\ call' = NoCall
    /\ lines_rewritten' = 0
    /\ UNCHANGED <<in_test_class, in_method, num_changes, stack, body_nonempty,
                   visited_in_test_class, strip_vars, disk, total_changes,
                   num_changed_files>>

NextFolder ==
    \/ StartFolder
    \/ TransformFile
    \/ PrintTotal
    \/ RunAgain

SpecFolder == InitFolder /\ [][NextFolder]_vars

SpecTwice == InitTwice /\ [][NextFolder]_vars

(***************************************************************************)
(* SpecStrip: _strip_line_continuation on its own, applied to every        *)
(* whitespace value of at most MaxWsUnits units (a space, or a backslash    *)
(* followed by a newline written LF, CRLF or CR) and to a whitespace that  *)
(* is parenthesized already.                                               *)
(***************************************************************************)
WsUnits == {<<SP>>, <<BS, LF>>, <<BS, CR, LF>>, <<BS, CR>>}

RECURSIVE concat(_)
concat(units) == IF units = <<>> THEN <<>> ELSE Head(units) \o concat(Tail(units))

WsValues ==
    {concat(u) : u \in UNION {[1..n -> WsUnits] : n \in 0..MaxWsUnits}}

StripInputs ==
    {SimpleWhitespace(v) : v \in WsValues}
    \cup {ParenthesizedWhitespace(TrailingWhitespace(SimpleWhitespace(<<>>)),
                                  SimpleWhitespace(<<SP, SP>>))}

NotCalled == [type |-> "NotCalled"]

InitStrip ==
    /\ IdleWalker
    /\ IdleFolder
    /\ ws_in \in StripInputs
    /\ ws_out = NotCalled

StripLineContinuation ==
    /\ ws_out = NotCalled
    /\ ws_out' = [type |-> "Called", out |-> _strip_line_continuation(ws_in)]
    /\ UNCHANGED <<ws_in, walker_vars, folder_vars>>

NextStrip == StripLineContinuation

SpecStrip == InitStrip /\ [][NextStrip]_vars

(***************************************************************************)
(* Properties                                                              *)
(***************************************************************************)
\* a class with a base whose source text contains "TestCase"
QualifyingClass(node) ==
    /\ node.type = "ClassDef"
    /\ \E b \in 1..Len(node.bases) : base_contains_TestCase(node.bases[b])

\* a def whose first positional parameter is named self
ReceiverFirst(node) ==
    /\ node.type = "FunctionDef"
    /\ Len(node.params) > 0
    /\ node.params[1] = "self"

InsideQualifyingClass == \E i \in 1..Len(stack) : QualifyingClass(stack[i])

InsideQualifyingMethod ==
    \E i \in 1..Len(stack) :
        /\ ReceiverFirst(stack[i])
        /\ \E j \in 1..(i - 1) : QualifyingClass(stack[j])

\* one statement, an assert, whose condition is a comparison with the single
\* operator ==
MatchesRewritePredicate(line) ==
    /\ Len(line.body) = 1
    /\ line.body[1].type = "Assert"
    /\ line.body[1].test.type = "Comparison"
    /\ Len(line.body[1].test.comparisons) = 1
    /\ line.body[1].test.comparisons[1].operator.type = "Equal"

LineVisited == call.handler = "leave_SimpleStatementLine"

BothFlagsAtCall == call.self.in_test_class /\ call.self.in_method

LineRewritten == LineVisited /\ ~call.raised /\ call.value # call.updated

LineUntouched ==
    /\ LineVisited /\ ~call.raised /\ call.value = call.updated
    /\ num_changes = call.self.num_changes

\* C1: a line visited with both flags set is rewritten (and counted once) if
\* and only if it matches the rewrite predicate; any other line is returned
\* unchanged and not counted.
C1_RewrittenIffMatches ==
    (LineVisited /\ BothFlagsAtCall) =>
        IF MatchesRewritePredicate(call.updated)
        THEN LineRewritten /\ num_changes = call.self.num_changes + 1
        ELSE LineUntouched

\* C1, as far as the code goes: the same, except that a matching line may
\* make the handler raise instead of being rewritten.
C1_RewrittenIffMatchesUnlessRaised ==
    (LineVisited /\ BothFlagsAtCall) =>
        IF MatchesRewritePredicate(call.updated)
        THEN \/ LineRewritten /\ num_changes = call.self.num_changes + 1
             \/ call.raised /\ num_changes = call.self.num_changes
        ELSE LineUntouched

\* the trivia a whitespace becomes by the line-continuation conversion
Converted(ws) == _strip_line_continuation(ws).value

\* new is one expression statement self.assertEqual(left, right[, msg]) built
\* from the assert of orig
AssertEqualCallOf(orig, new) ==
    LET a == orig.body[1] IN
    /\ Len(new.body) = 1
    /\ new.body[1].type = "Expr"
    /\ new.body[1].value.type = "Call"
    /\ new.body[1].value.func = Attribute(Name("self"), Name("assertEqual"))
    /\ LET args == new.body[1].value.args IN
       /\ Len(args) \in {2, 3}
       /\ args[1].value = a.test.left
       /\ args[2].value = a.test.comparisons[1].comparator
       /\ (Len(args) = 3) <=> (a.msg.type # "None")
       /\ Len(args) = 3 =>
             /\ args[3].value = a.msg
             /\ args[2].comma.type = "Comma"
             /\ args[2].comma.whitespace_after = Converted(a.comma.whitespace_after)

\* C2: a line that matches the rewrite predicate (visited with both flags
\* set) has its body replaced by one statement self.assertEqual(left, right)
\* with the message as third argument iff there was one, and the trivia
\* after the second comma is the converted trivia of the assert's comma.
C2_MatchingLineBecomesAssertEqual ==
    (LineVisited /\ BothFlagsAtCall /\ MatchesRewritePredicate(call.updated)) =>
        /\ ~call.raised
        /\ AssertEqualCallOf(call.updated, call.value)

\* C2, as far as the code goes: whenever the handler returns a rewritten
\* line, the line has that shape.
C2_RewrittenLineIsAssertEqual ==
    LineRewritten => AssertEqualCallOf(call.updated, call.value)

\* C3: a line with no qualifying class among its enclosing scopes is never
\* rewritten, and as long as only such lines were visited the count is 0.
C3_NoRewriteOutsideTestClass ==
    /\ (LineVisited /\ ~InsideQualifyingClass) => LineUntouched
    /\ ~visited_in_test_class => num_changes = 0
    /\ in_test_class => InsideQualifyingClass

\* C3 witness: after a rewrite in a test class, `assert a == b` is visited in
\* a def with a self parameter outside any qualifying class.
C3_Witness ==
    /\ LineVisited /\ ~InsideQualifyingClass
    /\ MatchesRewritePredicate(call.updated)
    /\ num_changes > 0
    /\ stack # <<>> /\ ReceiverFirst(stack[Len(stack)])

\* C4: an assert directly in the body of a def whose first positional
\* parameter is absent or not named self is never rewritten.
C4_NoRewriteWithoutReceiver ==
    (LineVisited /\ stack # <<>> /\ stack[Len(stack)].type = "FunctionDef"
        /\ ~ReceiverFirst(stack[Len(stack)]))
    => ~LineRewritten

\* C9: between entering a qualifying class (method) and leaving it, the
\* corresponding flag is set.
C9_FlagsSetInsideQualifyingScopes ==
    /\ InsideQualifyingClass => in_test_class
    /\ InsideQualifyingMethod => in_method

\* the lines of a tree that are calls (none of the inputs of SpecTwice is)
HasCallLine(tree) ==
    \E i \in 1..Len(tree.body) :
        tree.body[i].tok = "line" /\ tree.body[i].node.body[1].type = "Expr"

HasAssertLine(tree) ==
    \E i \in 1..Len(tree.body) :
        tree.body[i].tok = "line" /\ tree.body[i].node.body[1].type = "Assert"

\* C5: the second run over the output of the first changes no file, writes
\* nothing and reports 0 rewrites.
C5_SecondRunChangesNothing ==
    run = 2 =>
        /\ disk = disk_before
        /\ \A i \in 1..Len(returned) : returned[i] = 0 /\ ~wrote[i]
        /\ pc # "start" => total_changes = 0 /\ num_changed_files = 0
        /\ lines_rewritten = 0

\* C5 witness: the second run is over, on a file in which the first run
\* rewrote a line and left an assert.
C5_Witness ==
    /\ run = 2 /\ pc = "done" /\ returned = <<0>>
    /\ HasCallLine(disk[1].source) /\ HasAssertLine(disk[1].source)

Unparsable(file) == file.readable /\ file.source.type # "Module"

Parsed(file) == file.readable /\ file.source.type = "Module"

RECURSIVE SumSeq(_)
SumSeq(q) == IF q = <<>> THEN 0 ELSE Head(q) + SumSeq(Tail(q))

\* C6: what transform_file returns is the number of lines the traversal of
\* this file rewrote, whatever was processed before; the file is written iff
\* that number is positive, and is as it was otherwise.
C6_CountAndWrite ==
    /\ \A i \in 1..Len(disk) :
          IF i <= Len(returned)
          THEN /\ wrote[i] <=> returned[i] > 0
               /\ ~wrote[i] => disk[i] = disk_before[i]
               /\ wrote[i] => disk[i] # disk_before[i]
          ELSE disk[i] = disk_before[i]
    /\ (call.handler = "transform_file" /\ ~call.raised) =>
          /\ returned[Len(returned)] = lines_rewritten
          /\ Parsed(disk_before[Len(returned)]) =>
                num_changes = returned[Len(returned)]
    /\ \A i, j \in 1..Len(returned) :
          disk_before[i] = disk_before[j] => returned[i] = returned[j]

\* C6 witness: a file with rewrites was written and the same file, processed
\* after it, got the same count.
C6_Witness ==
    /\ run = 1 /\ Len(returned) >= 2
    /\ returned[1] = 2 /\ wrote[1]
    /\ disk_before[2] = disk_before[1]

\* C7: an unparsable file yields 0 and is not written; it never stops the
\* loop; the files around it are counted as they are elsewhere; the total is
\* the sum of the counts and the changed-files number counts the positive
\* ones.
C7_ParseFailureSkipsOneFile ==
    /\ \A i \in 1..Len(returned) :
          Unparsable(disk_before[i]) =>
              returned[i] = 0 /\ ~wrote[i] /\ disk[i] = disk_before[i]
    /\ pc = "aborted" => ~Unparsable(disk[idx])
    /\ \A i, k, j \in 1..Len(returned) :
          (i < k /\ k < j /\ Unparsable(disk_before[k])
              /\ disk_before[i] = disk_before[j])
          => returned[i] = returned[j] /\ wrote[i] = wrote[j]
    /\ pc \in {"loop", "done", "aborted"} =>
          /\ Len(returned) = idx - 1
          /\ total_changes = SumSeq(returned)
          /\ num_changed_files =
                 Cardinality({i \in 1..Len(returned) : returned[i] > 0})
    /\ pc = "done" => Len(returned) = Len(disk)

\* C7 witness: the batch finished with an unparsable file between two files
\* that were rewritten.
C7_Witness ==
    /\ run = 1 /\ pc = "done" /\ Len(disk) = 3
    /\ Unparsable(disk_before[2])
    /\ returned[1] > 0 /\ returned[3] > 0 /\ wrote[1] /\ wrote[3]

\* C8: no failure while processing a file stops the batch.
C8_FailureNeverStopsBatch == pc # "aborted"

NoEscapeOrNewline(v) == \A i \in 1..Len(v) : v[i] \notin {BS, LF, CR}

\* a backslash followed by a newline (LF, CRLF or CR)
HoldsContinuation(v) ==
    \E i \in 1..(Len(v) - 1) : v[i] = BS /\ v[i + 1] \in {LF, CR}

\* C10: a simple whitespace that holds a continuation is converted, without
\* an exception, to a parenthesized whitespace whose first and last line
\* hold no backslash and no newline; any other input is returned unchanged.
C10_ContinuationsConverted ==
    ws_out # NotCalled =>
        IF ws_in.type = "SimpleWhitespace" /\ HoldsContinuation(ws_in.value)
        THEN /\ ~ws_out.out.raised
             /\ ws_out.out.value.type = "ParenthesizedWhitespace"
             /\ NoEscapeOrNewline(ws_out.out.value.first_line.whitespace.value)
             /\ NoEscapeOrNewline(ws_out.out.value.last_line.value)
        ELSE ~ws_out.out.raised /\ ws_out.out.value = ws_in

\* C10, as far as the code goes: exactly the values with a single
\* continuation whose newline is LF or CRLF are converted that way.
C10_SingleContinuationConverted ==
    (ws_out # NotCalled /\ ws_in.type = "SimpleWhitespace"
        /\ Cardinality({i \in 1..(Len(ws_in.value) - 1) :
                           ws_in.value[i] = BS}) = 1
        /\ ~(\E i \in 1..Len(ws_in.value) :
                ws_in.value[i] = CR
                /\ (i = Len(ws_in.value) \/ ws_in.value[i + 1] # LF)))
    => /\ ~ws_out.out.raised
       /\ ws_out.out.value.type = "ParenthesizedWhitespace"
       /\ NoEscapeOrNewline(ws_out.out.value.first_line.whitespace.value)
       /\ NoEscapeOrNewline(ws_out.out.value.last_line.value)

====
